---- MODULE Spec2Model ----
(***************************************************************************)
(* Model of the node runtime (core/lib/node): ZkSyncNode::new, add_task    *)
(* and run of src/core/lib/node/src/node/mod.rs, with the tasks it spawns  *)
(* on its Tokio runtime, the two watch channels (stop, wired) and the      *)
(* LocalSet that drives the after_node_shutdown hooks.                     *)
(***************************************************************************)
EXTENDS Integers, Sequences, FiniteSets, TLC

(* ------------------------------ bounds --------------------------------- *)
\* Largest number of add_task calls made before run.
MaxTasks == 2
\* Largest number of times one hook future returns Pending before it is done.
MaxSuspend == 1
\* Largest number of get_resource calls made on one registry.
MaxGets == 3
\* Width in bits of the millisecond counts of poll_iters (u64 in the source),
\* scaled down so that every input up to and past the overflow is enumerated.
U64Bits == 4

(* ----------------------------- input sets ------------------------------ *)
\* T::NAME of the registered task types.
NAMES == {"A", "B"}
\* How a run future behaves: "Self" resolves on its own, "Stop" resolves only
\* after its StopReceiver has observed a change (as HealthCheckTask::run does).
KINDS == {"Self", "Stop"}
\* Output of a join handle: Ok(Ok(())), Ok(Err(_)), Err(JoinError).
OUTPUTS == {"Ok", "Err", "Panic"}
\* Errors a constructor can return.
TaskInitErrors == {"ResourceMissing", "Custom"}
OPTION == {"Some", "None"}
\* Names under which resources are requested.
RESOURCE_NAMES == {"stop_receiver", "pool", "db"}
\* The types T a resource is requested as.
TYPES == {"StopReceiverResource", "X", "Y"}
\* What a provider holds under a name: nothing, or a value of a type.
PROVIDED == {"None", "X", "Y"}

VARIABLES
    pc,                \* position of the thread that owns the node
    task_constructors, \* ZkSyncNode.task_constructors: names, in push order
    ctors,             \* run(): the local task_constructors still to iterate
    tasks,             \* run(): Vec<TaskRepr>
    errors,            \* run(): Vec<(String, TaskInitError)>
    futs,              \* the run future of each TaskRepr (kind, receiver, progress)
    join_handles,      \* output of each spawned task ("Pending" until resolved)
    stop_sender,       \* watch channel of the stop signal
    wired_sender,      \* watch channel of the wiring signal
    sel,               \* run(): (idx, failure, task_name) of select_all
    local_set,         \* run queue of the LocalSet (indices into tasks)
    hooks,             \* state of each task's after_node_shutdown future
    result,            \* value returned by run
    log,               \* tracing::error! lines of the init report
    hist,              \* history: constructors invoked, futures spawned, hooks
                       \* spawned and started, stop sends, drained failures
    reg,               \* the resource registry of src/lib.rs and its use by
                       \* constructors: provider, cache, calls made so far
    io                 \* a call of a state keeper IO helper (io/common.rs):
                       \* the function, its arguments and what it returned

vars == <<pc, task_constructors, ctors, tasks, errors, futs, join_handles,
          stop_sender, wired_sender, sel, local_set, hooks, result, log, hist,
          reg, io>>

(* --------------------------- watch channel ----------------------------- *)
\* Variant: the channel is created holding true.
WatchChannelTrue == [value |-> TRUE, version |-> 0]

\* watch::channel(false): value and version; the receiver returned with it is
\* dropped at the end of new().
WatchChannel == [value |-> FALSE, version |-> 0]

\* Variant: the value is stored without the receivers being notified.
WatchSendSilent(ch, receiver_count, v) ==
    IF receiver_count = 0 THEN ch
    ELSE [value |-> v, version |-> ch.version]

\* watch::Sender::send: fails, leaving the value alone, when no receiver is
\* alive; otherwise stores the value and bumps the version.
WatchSend(ch, receiver_count, v) ==
    IF receiver_count = 0 THEN ch
    ELSE [value |-> v, version |-> ch.version + 1]

\* watch::Sender::subscribe: a receiver that has seen the current version.
Subscribe(ch) == ch.version

\* watch::Receiver::has_changed
HasChanged(seen, ch) == seen # ch.version

(* ------------------------------ helpers -------------------------------- *)
NoResult == [kind |-> "None", name |-> "", names |-> <<>>]

Indices(s) == 1..Len(s)

\* The receivers of the stop channel still alive: one per constructed run
\* future that has not been dropped (a finished future is dropped).
StopReceiverCount == Cardinality({i \in Indices(futs) : futs[i].state # "Finished"})

\* The receivers of the wiring channel: the run futures built by constructors
\* that subscribed to it.
WiredReceiverCount == Cardinality({i \in Indices(futs) : futs[i].wired_receiver})

\* ZkSyncNode::stop_receiver
StopReceiver == Subscribe(stop_sender)

(* ------------------------- resource registry --------------------------- *)
\* Option::None of a Box<dyn Any>; a stored resource is its type and identity.
NoResource == [ty |-> "None", val |-> 0]

\* The providers a node can be built with (nothing is ever provided under the
\* name the node seeds itself).
Providers == {p \in [RESOURCE_NAMES -> PROVIDED] : p["stop_receiver"] = "None"}

\* ZkSyncNode::new of src/lib.rs: the cache holds the stop receiver resource
\* and nothing else; no call has been made.
Registry(provider) ==
    [provider |-> provider,
     resources |-> [n \in RESOURCE_NAMES |->
                      IF n = "stop_receiver"
                      THEN [ty |-> "StopReceiverResource", val |-> 0]
                      ELSE NoResource],
     provider_calls |-> [n \in RESOURCE_NAMES |-> 0],
     fresh |-> 1,
     gets |-> <<>>,
     errors |-> <<>>,
     pc |-> "Ready"]

\* ResourceProvider::get_resource: None, or a newly boxed value of the type
\* the provider holds under the name.
ProviderGet(r, name) ==
    IF r.provider[name] = "None" THEN NoResource
    ELSE [ty |-> r.provider[name], val |-> r.fresh]

\* Variant: a fetched resource is returned without being stored.
GetResourceNoInsert(cache, name, T, provided) ==
    IF cache[name] # NoResource
    THEN IF cache[name].ty = T
         THEN [ret |-> cache[name], cache |-> cache, queried |-> FALSE, panic |-> FALSE]
         ELSE [ret |-> NoResource, cache |-> cache, queried |-> FALSE, panic |-> TRUE]
    ELSE IF provided # NoResource
         THEN IF provided.ty = T
              THEN [ret |-> provided, cache |-> cache,
                    queried |-> TRUE, panic |-> FALSE]
              ELSE [ret |-> NoResource, cache |-> cache, queried |-> TRUE, panic |-> TRUE]
         ELSE [ret |-> NoResource, cache |-> cache, queried |-> TRUE, panic |-> FALSE]

\* Variant: a cached resource is moved out of the cache instead of cloned.
GetResourceTake(cache, name, T, provided) ==
    IF cache[name] # NoResource
    THEN IF cache[name].ty = T
         THEN [ret |-> cache[name], cache |-> [cache EXCEPT ![name] = NoResource],
               queried |-> FALSE, panic |-> FALSE]
         ELSE [ret |-> NoResource, cache |-> cache, queried |-> FALSE, panic |-> TRUE]
    ELSE IF provided # NoResource
         THEN IF provided.ty = T
              THEN [ret |-> provided, cache |-> [cache EXCEPT ![name] = provided],
                    queried |-> TRUE, panic |-> FALSE]
              ELSE [ret |-> NoResource, cache |-> cache, queried |-> TRUE, panic |-> TRUE]
         ELSE [ret |-> NoResource, cache |-> cache, queried |-> TRUE, panic |-> FALSE]

\* Variant: a resource the provider does not have is remembered in the cache.
GetResourceCacheAbsent(cache, name, T, provided) ==
    IF cache[name] # NoResource
    THEN IF cache[name].ty = T
         THEN [ret |-> cache[name], cache |-> cache, queried |-> FALSE, panic |-> FALSE]
         ELSE [ret |-> NoResource, cache |-> cache, queried |-> FALSE, panic |-> TRUE]
    ELSE IF provided # NoResource
         THEN IF provided.ty = T
              THEN [ret |-> provided, cache |-> [cache EXCEPT ![name] = provided],
                    queried |-> TRUE, panic |-> FALSE]
              ELSE [ret |-> NoResource, cache |-> cache, queried |-> TRUE, panic |-> TRUE]
         ELSE [ret |-> NoResource,
               cache |-> [cache EXCEPT ![name] = [ty |-> "Absent", val |-> 0]],
               queried |-> TRUE, panic |-> FALSE]

\* Variant: a fetched resource is stored before its type is looked at.
GetResourceInsertFirst(cache, name, T, provided) ==
    IF cache[name] # NoResource
    THEN IF cache[name].ty = T
         THEN [ret |-> cache[name], cache |-> cache, queried |-> FALSE, panic |-> FALSE]
         ELSE [ret |-> NoResource, cache |-> cache, queried |-> FALSE, panic |-> TRUE]
    ELSE IF provided # NoResource
         THEN IF provided.ty = T
              THEN [ret |-> provided, cache |-> [cache EXCEPT ![name] = provided],
                    queried |-> TRUE, panic |-> FALSE]
              ELSE [ret |-> NoResource, cache |-> [cache EXCEPT ![name] = provided],
                    queried |-> TRUE, panic |-> TRUE]
         ELSE [ret |-> NoResource, cache |-> cache, queried |-> TRUE, panic |-> FALSE]

\* ZkSyncNode::get_resource::<T>(name) of src/lib.rs on the cache `cache`,
\* `provided` being what the provider answers if it is asked: the value
\* returned, the cache afterwards, whether the provider was asked, and whether
\* downcast_clone panicked.  A cached value is downcast and cloned; a fetched
\* value is downcast first and inserted after; None otherwise.
GetResourceOutcome(cache, name, T, provided) ==
    IF cache[name] # NoResource
    THEN IF cache[name].ty = T
         THEN [ret |-> cache[name], cache |-> cache, queried |-> FALSE, panic |-> FALSE]
         ELSE [ret |-> NoResource, cache |-> cache, queried |-> FALSE, panic |-> TRUE]
    ELSE IF provided # NoResource
         THEN IF provided.ty = T
              THEN [ret |-> provided, cache |-> [cache EXCEPT ![name] = provided],
                    queried |-> TRUE, panic |-> FALSE]
              ELSE [ret |-> NoResource, cache |-> cache, queried |-> TRUE, panic |-> TRUE]
         ELSE [ret |-> NoResource, cache |-> cache, queried |-> TRUE, panic |-> FALSE]

\* What the caller of get_resource sees.
Seen(o) == IF o.panic THEN "Panic" ELSE IF o.ret = NoResource THEN "None" ELSE "Some"

\* The state left by ZkSyncNode::new of src/node/mod.rs.
NodeConstructed ==
    /\ pc = "Configuring"
    /\ task_constructors = <<>>
    /\ ctors = <<>>
    /\ tasks = <<>>
    /\ errors = <<>>
    /\ futs = <<>>
    /\ join_handles = <<>>
    /\ stop_sender = WatchChannel
    /\ wired_sender = WatchChannel
    /\ sel = [idx |-> 0, resolved |-> "Pending", failure |-> FALSE,
              task_name |-> ""]
    /\ local_set = <<>>
    /\ hooks = <<>>
    /\ result = NoResult
    /\ log = <<>>
    /\ hist = [registered |-> <<>>, invoked |-> <<>>, spawned |-> <<>>,
               hook_spawned |-> <<>>, started |-> <<>>,
               stop_sends |-> 0, wired_sends |-> 0, drained_failure |-> FALSE]

\* No call of an IO helper is being looked at.
NoCall == [call |-> "None", args |-> [none |-> TRUE], ret |-> [kind |-> "Pending"]]

\* The node before add_task and run; its registry is not exercised.
Init ==
    /\ NodeConstructed
    /\ reg = Registry([n \in RESOURCE_NAMES |-> "None"])
    /\ io = NoCall

(* ------------------------------ add_task -------------------------------- *)
AddTask(name) ==
    /\ pc = "Configuring"
    /\ Len(task_constructors) < MaxTasks
    /\ task_constructors' = Append(task_constructors, name)
    /\ UNCHANGED <<pc, ctors, tasks, errors, futs, join_handles, stop_sender,
                   wired_sender, sel, local_set, hooks,
                   result, log, hist>>
    /\ UNCHANGED <<reg, io>>

(* -------------------------------- run ----------------------------------- *)
\* Variant: run iterates over a copy and the node keeps its list.
RunStartClone ==
    /\ pc = "Configuring"
    /\ pc' = "Initializing"
    /\ ctors' = task_constructors
    /\ hist' = [hist EXCEPT !.registered = task_constructors]
    /\ UNCHANGED <<task_constructors, tasks, errors, futs, join_handles,
                   stop_sender, wired_sender, sel, local_set, hooks,
                   result, log>>
    /\ UNCHANGED <<reg, io>>

\* let task_constructors = std::mem::take(&mut self.task_constructors);
RunStart ==
    /\ pc = "Configuring"
    /\ pc' = "Initializing"
    /\ ctors' = task_constructors
    /\ task_constructors' = <<>>
    /\ hist' = [hist EXCEPT !.registered = task_constructors]
    /\ UNCHANGED <<tasks, errors, futs, join_handles, stop_sender,
                   wired_sender, sel, local_set, hooks,
                   result, log>>
    /\ UNCHANGED <<reg, io>>

\* Variant: the run future starts executing as soon as it is built, while the
\* loop over the constructors is still going.
CtorOkEager(name, kind, hook, wired) ==
    /\ tasks' = Append(tasks, [name |-> name, task |-> "Some",
                               after_node_shutdown |-> hook])
    /\ futs' = Append(futs, [kind |-> kind, state |-> "Running",
                             stop_receiver |-> StopReceiver,
                             wired_receiver |-> wired])
    /\ hooks' = Append(hooks, [state |-> "Idle", pending |-> 0,
                               provided |-> (hook = "Some")])
    /\ ctors' = Tail(ctors)
    /\ UNCHANGED errors

\* Ok(task) arm of the loop body: the hook is extracted, the run future is
\* built with a fresh stop receiver, and the TaskRepr is pushed.  `wired` says
\* whether the constructor subscribed the task to the wiring signal.
CtorOk(name, kind, hook, wired) ==
    /\ tasks' = Append(tasks, [name |-> name, task |-> "Some",
                               after_node_shutdown |-> hook])
    /\ futs' = Append(futs, [kind |-> kind, state |-> "Created",
                             stop_receiver |-> StopReceiver,
                             wired_receiver |-> wired])
    /\ hooks' = Append(hooks, [state |-> "Idle", pending |-> 0,
                               provided |-> (hook = "Some")])
    /\ ctors' = Tail(ctors)
    /\ UNCHANGED errors

\* Variant: the first error ends the loop.
CtorErrBail(name, err) ==
    /\ errors' = Append(errors, [name |-> name, err |-> err])
    /\ ctors' = <<>>
    /\ UNCHANGED <<tasks, futs, hooks>>

\* Err(err) arm of the loop body: the error is recorded and the loop continues.
CtorErr(name, err) ==
    /\ errors' = Append(errors, [name |-> name, err |-> err])
    /\ ctors' = Tail(ctors)
    /\ UNCHANGED <<tasks, futs, hooks>>

\* One iteration of `for (name, task_constructor) in task_constructors`.
CallConstructor ==
    /\ pc = "Initializing"
    /\ ctors # <<>>
    /\ LET name == Head(ctors) IN
         \/ /\ \E kind \in KINDS, hook \in OPTION, wired \in BOOLEAN :
                  CtorOk(name, kind, hook, wired)
            /\ hist' = [hist EXCEPT !.invoked =
                            Append(@, [name |-> name, ok |-> TRUE])]
         \/ /\ \E err \in TaskInitErrors : CtorErr(name, err)
            /\ hist' = [hist EXCEPT !.invoked =
                            Append(@, [name |-> name, ok |-> FALSE])]
    /\ UNCHANGED <<pc, task_constructors, join_handles, stop_sender,
                   wired_sender, sel, local_set, result, log>>
    /\ UNCHANGED <<reg, io>>

\* The names carried by the error of `anyhow::bail!("One or more task weren't
\* able to start")`: the message is a fixed string.
InitErrorNames(errs) == <<>>

\* Variant: the empty check comes first, so that a run in which every
\* constructor failed reports that there are no tasks.
ReportErrorsAfterEmptyCheck ==
    /\ pc = "Initializing"
    /\ ctors = <<>>
    /\ errors # <<>>
    /\ log' = IF tasks = <<>> THEN log
              ELSE log \o [i \in Indices(errors) |-> errors[i]]
    /\ result' = IF tasks = <<>>
                 THEN [kind |-> "NoTasks", name |-> "", names |-> <<>>]
                 ELSE [kind |-> "InitializationFailed", name |-> "",
                       names |-> InitErrorNames(errors)]
    /\ pc' = "Failed"
    /\ UNCHANGED <<task_constructors, ctors, tasks, errors, futs, join_handles,
                   stop_sender, wired_sender, sel, local_set,
                   hooks, hist>>
    /\ UNCHANGED <<reg, io>>

\* if !errors.is_empty() { log each; bail }
ReportErrors ==
    /\ pc = "Initializing"
    /\ ctors = <<>>
    /\ errors # <<>>
    /\ log' = log \o [i \in Indices(errors) |-> errors[i]]
    /\ result' = [kind |-> "InitializationFailed", name |-> "",
                  names |-> InitErrorNames(errors)]
    /\ pc' = "Failed"
    /\ UNCHANGED <<task_constructors, ctors, tasks, errors, futs, join_handles,
                   stop_sender, wired_sender, sel, local_set,
                   hooks, hist>>
    /\ UNCHANGED <<reg, io>>

\* Variant: an empty task list is not rejected and run goes on to spawn.
NoTasksUnchecked ==
    /\ pc = "Initializing"
    /\ ctors = <<>>
    /\ errors = <<>>
    /\ tasks = <<>>
    /\ wired_sender' = WatchSend(wired_sender, WiredReceiverCount, TRUE)
    /\ hist' = [hist EXCEPT !.wired_sends = @ + 1]
    /\ pc' = "Spawning"
    /\ UNCHANGED <<task_constructors, ctors, tasks, errors, futs, join_handles,
                   stop_sender, sel, local_set, hooks, result, log>>
    /\ UNCHANGED <<reg, io>>

\* if tasks.is_empty() { bail }
NoTasks ==
    /\ pc = "Initializing"
    /\ ctors = <<>>
    /\ errors = <<>>
    /\ tasks = <<>>
    /\ result' = [kind |-> "NoTasks", name |-> "", names |-> <<>>]
    /\ pc' = "Failed"
    /\ UNCHANGED <<task_constructors, ctors, tasks, errors, futs, join_handles,
                   stop_sender, wired_sender, sel, local_set,
                   hooks, log, hist>>
    /\ UNCHANGED <<reg, io>>

\* Variant: the wiring signal is sent and the tasks are spawned without
\* looking at the collected errors.
WiringCompleteUnchecked ==
    /\ pc = "Initializing"
    /\ ctors = <<>>
    /\ tasks # <<>>
    /\ wired_sender' = WatchSend(wired_sender, WiredReceiverCount, TRUE)
    /\ hist' = [hist EXCEPT !.wired_sends = @ + 1]
    /\ pc' = "Spawning"
    /\ UNCHANGED <<task_constructors, ctors, tasks, errors, futs, join_handles,
                   stop_sender, sel, local_set, hooks, result, log>>
    /\ UNCHANGED <<reg, io>>

\* Variant: the tasks are spawned without the wiring signal being sent.
WiringSkipped ==
    /\ pc = "Initializing"
    /\ ctors = <<>>
    /\ errors = <<>>
    /\ tasks # <<>>
    /\ pc' = "Spawning"
    /\ UNCHANGED <<task_constructors, ctors, tasks, errors, futs, join_handles,
                   stop_sender, wired_sender, sel, local_set, hooks, result,
                   log, hist>>
    /\ UNCHANGED <<reg, io>>

\* self.wired_sender.send(true).ok();
WiringComplete ==
    /\ pc = "Initializing"
    /\ ctors = <<>>
    /\ errors = <<>>
    /\ tasks # <<>>
    /\ wired_sender' = WatchSend(wired_sender, WiredReceiverCount, TRUE)
    /\ hist' = [hist EXCEPT !.wired_sends = @ + 1]
    /\ pc' = "Spawning"
    /\ UNCHANGED <<task_constructors, ctors, tasks, errors, futs, join_handles,
                   stop_sender, sel, local_set, hooks, result, log>>
    /\ UNCHANGED <<reg, io>>

\* Variant: the future is handed over without emptying the slot.
SlotKept == "Some"

\* task.task.take(): the slot of the TaskRepr after the hand-off.
TakenSlot == "None"

\* One element of the `.map(|task| rt_handle.spawn(task.task.take().expect(..)))`
\* iteration: the future leaves the TaskRepr and starts running on the runtime.
SpawnTask ==
    /\ pc = "Spawning"
    /\ Len(join_handles) < Len(tasks)
    /\ LET i == Len(join_handles) + 1 IN
         IF tasks[i].task = "Some"
         THEN /\ tasks' = [tasks EXCEPT ![i].task = TakenSlot]
              /\ futs' = [futs EXCEPT ![i].state = "Running"]
              /\ join_handles' = Append(join_handles, "Pending")
              /\ hist' = [hist EXCEPT !.spawned = Append(@, i)]
              /\ pc' = IF i = Len(tasks) THEN "Running" ELSE "Spawning"
              /\ UNCHANGED result
         ELSE /\ pc' = "Panicked"
              /\ result' = [kind |-> "Panic", name |-> tasks[i].name,
                            names |-> <<>>]
              /\ UNCHANGED <<tasks, futs, join_handles, hist>>
    /\ UNCHANGED <<task_constructors, ctors, errors, stop_sender, wired_sender, sel, local_set, hooks, log>>
    /\ UNCHANGED <<reg, io>>

\* Variant: the failure flag looks at every handle that is ready, not only at
\* the one select_all yields.
FailureOfAnyHandle(resolved) ==
    \E j \in Indices(join_handles) : join_handles[j] \in {"Err", "Panic"}

\* match resolved { Ok(Ok(())) => false, Ok(Err(_)) => true, Err(_) => true }
Failure(resolved) == resolved # "Ok"

\* Variant: a panicked task makes run return at once, as `resolved?` would.
SelectAllBailOnPanic(i) ==
    /\ pc = "Running"
    /\ i \in Indices(join_handles)
    /\ join_handles[i] # "Pending"
    /\ sel' = [idx |-> i, resolved |-> join_handles[i],
               failure |-> join_handles[i] # "Ok",
               task_name |-> tasks[i].name]
    /\ join_handles' = [join_handles EXCEPT ![i] = "Taken"]
    /\ IF join_handles[i] = "Panic"
       THEN /\ pc' = "Done"
            /\ result' = [kind |-> "TaskFailed", name |-> tasks[i].name,
                          names |-> <<>>]
       ELSE /\ pc' = "Draining"
            /\ UNCHANGED result
    /\ UNCHANGED <<task_constructors, ctors, tasks, errors, futs,
                   stop_sender, wired_sender, local_set, hooks, log, hist>>
    /\ UNCHANGED <<reg, io>>

\* block_on(select_all(join_handles)): yields the output of a handle that is
\* ready, its index, and the remaining handles.
SelectAll(i) ==
    /\ pc = "Running"
    /\ i \in Indices(join_handles)
    /\ join_handles[i] # "Pending"
    /\ sel' = [idx |-> i, resolved |-> join_handles[i],
               failure |-> Failure(join_handles[i]),
               task_name |-> tasks[i].name]
    /\ join_handles' = [join_handles EXCEPT ![i] = "Taken"]
    /\ pc' = "Draining"
    /\ UNCHANGED <<task_constructors, ctors, tasks, errors, futs,
                   stop_sender, wired_sender, local_set,
                   hooks, result, log, hist>>
    /\ UNCHANGED <<reg, io>>

\* Variant: the stop signal is sent right after the tasks are spawned, before
\* any of them is awaited.
SendStopBeforeSelect ==
    /\ pc = "Running"
    /\ stop_sender' = WatchSend(stop_sender, StopReceiverCount, TRUE)
    /\ hist' = [hist EXCEPT !.stop_sends = @ + 1]
    /\ pc' = "Joining"
    /\ UNCHANGED <<task_constructors, ctors, tasks, errors, futs, join_handles,
                   wired_sender, sel, local_set, hooks,
                   result, log>>
    /\ UNCHANGED <<reg, io>>

\* Variant: the node goes on to wait for the remaining tasks without sending
\* the stop signal.
SendStopOmitted ==
    /\ pc = "Draining"
    /\ pc' = "Joining"
    /\ UNCHANGED <<task_constructors, ctors, tasks, errors, futs, join_handles,
                   stop_sender, wired_sender, sel, local_set,
                   hooks, result, log, hist>>
    /\ UNCHANGED <<reg, io>>

\* self.stop_sender.send(true).ok();
SendStop ==
    /\ pc = "Draining"
    /\ stop_sender' = WatchSend(stop_sender, StopReceiverCount, TRUE)
    /\ hist' = [hist EXCEPT !.stop_sends = @ + 1]
    /\ pc' = "Joining"
    /\ UNCHANGED <<task_constructors, ctors, tasks, errors, futs, join_handles,
                   wired_sender, sel, local_set, hooks,
                   result, log>>
    /\ UNCHANGED <<reg, io>>

\* Variant: the hooks are not held back until the remaining handles are ready.
RemainingNotAwaited == TRUE

\* join_all(remaining) is ready: every handle but the selected one is resolved.
RemainingResolved ==
    \A i \in Indices(join_handles) : i # sel.idx => join_handles[i] # "Pending"

\* The outputs of the remaining handles are dropped with the Vec join_all yields.
Discard(handles) == [i \in Indices(handles) |-> "Taken"]

\* Variant: the remaining tasks are aborted instead of awaited.
JoinRemainingAbort ==
    /\ pc = "Joining"
    /\ join_handles' = Discard(join_handles)
    /\ futs' = [i \in Indices(futs) |->
                   [kind |-> "None", state |-> "Finished", stop_receiver |-> 0,
                    wired_receiver |-> FALSE]]
    /\ hist' = [hist EXCEPT !.drained_failure =
                    \E i \in Indices(join_handles) :
                        join_handles[i] \in {"Err", "Panic"}]
    /\ pc' = "Shutdown"
    /\ UNCHANGED <<task_constructors, ctors, tasks, errors,
                   stop_sender, wired_sender, sel, local_set,
                   hooks, result, log>>
    /\ UNCHANGED <<reg, io>>

\* self.runtime.block_on(futures::future::join_all(remaining));
JoinRemaining ==
    /\ pc = "Joining"
    /\ RemainingResolved
    /\ join_handles' = Discard(join_handles)
    /\ hist' = [hist EXCEPT !.drained_failure =
                    \E i \in Indices(join_handles) :
                        join_handles[i] \in {"Err", "Panic"}]
    /\ pc' = "Shutdown"
    /\ UNCHANGED <<task_constructors, ctors, tasks, errors, futs,
                   stop_sender, wired_sender, sel, local_set,
                   hooks, result, log>>
    /\ UNCHANGED <<reg, io>>

RECURSIVE HooksFrom(_, _)
\* tasks.iter_mut().filter_map(|t| t.after_node_shutdown.take().map(spawn_local)):
\* the indices i >= from of the tasks that hold a hook, in iteration order.
HooksFrom(ts, from) ==
    IF from > Len(ts) THEN <<>>
    ELSE (IF ts[from].after_node_shutdown = "Some" THEN <<from>> ELSE <<>>)
         \o HooksFrom(ts, from + 1)

\* The hooks spawned on the LocalSet, in spawn order.
HooksToSpawn == HooksFrom(tasks, 1)

\* Every hook is taken out of its TaskRepr and queued on the LocalSet.
SpawnHooks ==
    /\ pc = "Shutdown"
    /\ local_set' = local_set \o HooksToSpawn
    /\ tasks' = [i \in Indices(tasks) |->
                    [tasks[i] EXCEPT !.after_node_shutdown = "None"]]
    /\ hooks' = [i \in Indices(hooks) |->
                    IF tasks[i].after_node_shutdown = "Some"
                    THEN [hooks[i] EXCEPT !.state = "Queued"] ELSE hooks[i]]
    /\ hist' = [hist EXCEPT !.hook_spawned = @ \o HooksToSpawn]
    /\ pc' = "Hooks"
    /\ UNCHANGED <<task_constructors, ctors, errors, futs, join_handles,
                   stop_sender, wired_sender, sel, result, log>>
    /\ UNCHANGED <<reg, io>>

\* The LocalSet polls the task at the head of its run queue: the hook future
\* completes, panics (caught by the task harness), or returns Pending.
PollHook(outcome) ==
    /\ pc = "Hooks"
    /\ local_set # <<>>
    /\ LET i == Head(local_set) IN
         /\ outcome = "Suspended" => hooks[i].pending < MaxSuspend
         /\ hooks' = [hooks EXCEPT ![i] =
                         [state |-> outcome,
                          pending |-> @.pending + (IF outcome = "Suspended" THEN 1 ELSE 0),
                          provided |-> @.provided]]
         /\ hist' = IF hooks[i].pending = 0
                    THEN [hist EXCEPT !.started = Append(@, i)] ELSE hist
    /\ local_set' = Tail(local_set)
    /\ UNCHANGED <<pc, task_constructors, ctors, tasks, errors, futs,
                   join_handles, stop_sender, wired_sender, 
                   sel, result, log>>
    /\ UNCHANGED <<reg, io>>

\* The waker of a suspended hook fires: the LocalSet schedules it again.
WakeHook(i) ==
    /\ pc = "Hooks"
    /\ i \in Indices(hooks)
    /\ hooks[i].state = "Suspended"
    /\ hooks' = [hooks EXCEPT ![i].state = "Queued"]
    /\ local_set' = Append(local_set, i)
    /\ UNCHANGED <<pc, task_constructors, ctors, tasks, errors, futs,
                   join_handles, stop_sender, wired_sender, 
                   sel, result, log, hist>>
    /\ UNCHANGED <<reg, io>>

\* join_all over the hooks' handles is ready.
HooksResolved ==
    \A i \in Indices(hooks) : hooks[i].state \in {"Idle", "Done", "Panicked"}

\* Variant: a hook that panicked turns the result into a failure.
RunResultWithHooks(s) ==
    IF s.failure \/ \E i \in Indices(hooks) : hooks[i].state = "Panicked"
    THEN [kind |-> "TaskFailed", name |-> s.task_name, names |-> <<>>]
    ELSE [kind |-> "Ok", name |-> "", names |-> <<>>]

\* if failure { bail!("Task {task_name} failed") } else { Ok(()) }
RunResult(s) ==
    IF s.failure THEN [kind |-> "TaskFailed", name |-> s.task_name, names |-> <<>>]
    ELSE [kind |-> "Ok", name |-> "", names |-> <<>>]

\* local_set.block_on(..) returns and run returns its result.
Finish ==
    /\ pc = "Hooks"
    /\ HooksResolved
    /\ result' = RunResult(sel)
    /\ pc' = "Done"
    /\ UNCHANGED <<task_constructors, ctors, tasks, errors, futs, join_handles,
                   stop_sender, wired_sender, sel, local_set,
                   hooks, log, hist>>
    /\ UNCHANGED <<reg, io>>

(* ------------------------- the spawned tasks ---------------------------- *)
Spawned(i) == i \in Indices(join_handles)

\* stop_receiver.0.changed().await returns: the receiver marks the version seen.
ObserveStop(i) ==
    /\ Spawned(i)
    /\ futs[i].state = "Running"
    /\ HasChanged(futs[i].stop_receiver, stop_sender)
    /\ futs' = [futs EXCEPT ![i].state = "Observed",
                            ![i].stop_receiver = stop_sender.version]
    /\ UNCHANGED <<pc, task_constructors, ctors, tasks, errors, join_handles,
                   stop_sender, wired_sender, sel, local_set,
                   hooks, result, log, hist>>
    /\ UNCHANGED <<reg, io>>

\* A run future that has completed: the runtime has dropped it, and with it
\* the stop receiver it owned.
Dropped == [kind |-> "None", state |-> "Finished", stop_receiver |-> 0,
            wired_receiver |-> FALSE]

\* Variant: a task that waits for the stop signal may return without it.
ResolveUnconditional(i, out) ==
    /\ Spawned(i)
    /\ futs[i].state \in {"Running", "Observed"}
    /\ futs' = [futs EXCEPT ![i] = Dropped]
    /\ join_handles' = [join_handles EXCEPT ![i] = out]
    /\ UNCHANGED <<pc, task_constructors, ctors, tasks, errors, stop_sender,
                   wired_sender, sel, local_set, hooks,
                   result, log, hist>>
    /\ UNCHANGED <<reg, io>>

\* The run future of task i completes with `out` (or panics): a "Stop" task
\* only after it has observed the stop signal.
Resolve(i, out) ==
    /\ Spawned(i)
    /\ \/ futs[i].state = "Observed"
       \/ futs[i].state = "Running" /\ futs[i].kind = "Self"
    /\ futs' = [futs EXCEPT ![i] = Dropped]
    /\ join_handles' = [join_handles EXCEPT ![i] = out]
    /\ UNCHANGED <<pc, task_constructors, ctors, tasks, errors, stop_sender,
                   wired_sender, sel, local_set, hooks,
                   result, log, hist>>
    /\ UNCHANGED <<reg, io>>

Next ==
    \/ \E n \in NAMES : AddTask(n)
    \/ RunStart
    \/ CallConstructor
    \/ ReportErrors
    \/ NoTasks
    \/ WiringComplete
    \/ SpawnTask
    \/ \E i \in 1..MaxTasks : SelectAll(i)
    \/ SendStop
    \/ JoinRemaining
    \/ SpawnHooks
    \/ \E o \in {"Done", "Panicked", "Suspended"} : PollHook(o)
    \/ \E i \in 1..MaxTasks : WakeHook(i)
    \/ Finish
    \/ \E i \in 1..MaxTasks : ObserveStop(i)
    \/ \E i \in 1..MaxTasks, out \in OUTPUTS : Resolve(i, out)

Spec == Init /\ [][Next]_vars

(* ------------------------------- new ------------------------------------ *)
\* A channel that has not been created.
NoChannel == [value |-> FALSE, version |-> -1]

\* The caller of ZkSyncNode::new, inside a Tokio runtime or not; no node and
\* no channel exists yet.
NewInit ==
    /\ pc \in {"InRuntime", "NoRuntime"}
    /\ task_constructors = <<>>
    /\ ctors = <<>>
    /\ tasks = <<>>
    /\ errors = <<>>
    /\ futs = <<>>
    /\ join_handles = <<>>
    /\ stop_sender = NoChannel
    /\ wired_sender = NoChannel
    /\ sel = [idx |-> 0, resolved |-> "Pending", failure |-> FALSE,
              task_name |-> ""]
    /\ local_set = <<>>
    /\ hooks = <<>>
    /\ result = NoResult
    /\ log = <<>>
    /\ hist = [registered |-> <<>>, invoked |-> <<>>, spawned |-> <<>>,
               hook_spawned |-> <<>>, started |-> <<>>,
               stop_sends |-> 0, wired_sends |-> 0, drained_failure |-> FALSE]
    /\ reg = Registry([n \in RESOURCE_NAMES |-> "None"])
    /\ io = NoCall

\* Variant: the node is built without looking for an ambient runtime.
NewUnchecked ==
    /\ pc \in {"InRuntime", "NoRuntime"}
    /\ pc' = "Configuring"
    /\ stop_sender' = WatchChannel
    /\ wired_sender' = WatchChannel
    /\ task_constructors' = <<>>
    /\ UNCHANGED <<result, ctors, tasks, errors, futs, join_handles, sel,
                   local_set, hooks, log, hist>>
    /\ UNCHANGED <<reg, io>>

\* ZkSyncNode::new: bails if Handle::try_current() finds a runtime; otherwise
\* creates the two channels (their first receivers are dropped when new
\* returns) and the node with an empty constructor list.
New ==
    /\ pc \in {"InRuntime", "NoRuntime"}
    /\ IF pc = "InRuntime"
       THEN /\ pc' = "Refused"
            /\ result' = [kind |-> "InvalidEnvironment", name |-> "",
                          names |-> <<>>]
            /\ UNCHANGED <<stop_sender, wired_sender, task_constructors>>
       ELSE /\ pc' = "Configuring"
            /\ stop_sender' = WatchChannel
            /\ wired_sender' = WatchChannel
            /\ task_constructors' = <<>>
            /\ UNCHANGED result
    /\ UNCHANGED <<ctors, tasks, errors, futs, join_handles, sel, local_set,
                   hooks, log, hist>>
    /\ UNCHANGED <<reg, io>>

NewNext == New \/ Next

\* The life of a node from the call of new on.
NewSpec == NewInit /\ [][NewNext]_vars

(* ---------------- constructors drawing on the registry ------------------ *)
nodevars == <<pc, task_constructors, ctors, tasks, errors, futs, join_handles,
              stop_sender, wired_sender, sel, local_set, hooks, result, log,
              hist>>

\* A registry over any provider, before the first constructor is invoked.
RegInit ==
    /\ NodeConstructed
    /\ \E p \in Providers : reg = Registry(p)
    /\ io = NoCall

\* One constructor invocation of the initialization loop, the constructor
\* calling get_resource::<T>(name) once: with a value it returns Ok(task);
\* with None it returns Ok(task) or, if it needs the resource (`fatal`),
\* Err(ResourceMissing), which the loop records; a panic of get_resource
\* unwinds through the constructor and the loop.
ConstructWithResource(name, T, fatal) ==
    /\ reg.pc = "Ready"
    /\ Len(reg.gets) < MaxGets
    /\ LET o == GetResourceOutcome(reg.resources, name, T, ProviderGet(reg, name))
           fetched == o.queried /\ ProviderGet(reg, name) # NoResource
       IN  /\ fatal => Seen(o) = "None"
           /\ reg' = [reg EXCEPT
                 !.resources = o.cache,
                 !.provider_calls[name] = @ + (IF o.queried THEN 1 ELSE 0),
                 !.fresh = @ + (IF fetched THEN 1 ELSE 0),
                 !.gets = Append(@, [name |-> name, ty |-> T, seen |-> Seen(o),
                                     ret |-> o.ret, queried |-> o.queried,
                                     before |-> reg.resources,
                                     after |-> o.cache]),
                 !.errors = IF fatal
                            THEN Append(@, [ctor |-> Len(reg.gets) + 1,
                                            err |-> "ResourceMissing"])
                            ELSE @,
                 !.pc = IF o.panic THEN "Panicked" ELSE "Ready"]
    /\ UNCHANGED nodevars
    /\ UNCHANGED io

RegNext ==
    \E name \in RESOURCE_NAMES, T \in TYPES, fatal \in BOOLEAN :
        ConstructWithResource(name, T, fatal)

RegSpec == RegInit /\ [][RegNext]_vars

(* -------------------- state keeper IO helpers --------------------------- *)
\* Number of values of the millisecond counts: `as u64` and u64 arithmetic
\* are taken modulo this.
U64Modulus == 2 ^ U64Bits

\* Durations, in whole milliseconds as Duration::as_millis reports them (a
\* u128, so that it can exceed the u64 it is cast to).
Durations == 0..(2 * U64Modulus - 1)

\* poll_iters(delay_interval, max_wait).  `overflow_checks` is the build
\* setting: with it an overflowing addition panics, without it the u64
\* arithmetic wraps.
PollIters(delay_interval, max_wait, overflow_checks) ==
    LET max_wait_millis == max_wait % U64Modulus
        delay_interval_millis == delay_interval % U64Modulus
        sum == max_wait_millis + delay_interval_millis
        numerator == ((sum % U64Modulus) + U64Modulus - 1) % U64Modulus
        quotient == numerator \div delay_interval_millis
    IN  IF delay_interval_millis = 0
        THEN [kind |-> "Panic", value |-> 0, msg |-> "delay interval must be positive"]
        ELSE IF overflow_checks /\ sum >= U64Modulus
        THEN [kind |-> "Panic", value |-> 0, msg |-> "attempt to add with overflow"]
        ELSE [kind |-> "Ok", value |-> IF quotient < 1 THEN 1 ELSE quotient,
              msg |-> ""]

\* Option<T>
None == [some |-> FALSE]
Some(x) == [some |-> TRUE, v |-> x]

\* What Postgres holds when IoCursor::new reads it: the number of the last
\* sealed L1 batch, the header of the last sealed miniblock, the snapshot
\* recovery status, each possibly absent; and which of the three queries, if
\* any, fails (0: none).
Storages ==
    [l1_batch : {None} \cup {Some(n) : n \in {0, 4}},
     miniblock : {None} \cup
                 {Some([number |-> n, hash |-> "hash_m", timestamp |-> t]) :
                     n \in {0, 5}, t \in {0, 7}},
     snapshot : {None} \cup
                {Some([l1_batch_number |-> b, miniblock_number |-> 3,
                       miniblock_hash |-> "hash_s", miniblock_timestamp |-> 9]) :
                     b \in {2, 23}},
     failing_query : 0..3]

Failed(context) == [kind |-> "Err", context |-> context]

\* Variant: the L1 batch is taken from the snapshot whenever the snapshot is
\* consulted.
IoCursorNewSnapshotBatch(storage) ==
    IF storage.failing_query = 1
    THEN Failed("Failed getting sealed L1 batch number")
    ELSE IF storage.failing_query = 2
    THEN Failed("Failed getting sealed miniblock header")
    ELSE IF storage.l1_batch.some /\ storage.miniblock.some
    THEN [kind |-> "Ok",
          next_miniblock |-> storage.miniblock.v.number + 1,
          prev_miniblock_hash |-> storage.miniblock.v.hash,
          prev_miniblock_timestamp |-> storage.miniblock.v.timestamp,
          l1_batch |-> storage.l1_batch.v + 1]
    ELSE IF storage.failing_query = 3
    THEN Failed("Failed getting snapshot recovery info")
    ELSE IF ~storage.snapshot.some
    THEN Failed("Postgres contains neither blocks nor snapshot recovery info")
    ELSE LET snapshot_recovery == storage.snapshot.v
             l1_batch == snapshot_recovery.l1_batch_number + 1
         IN  IF storage.miniblock.some
             THEN [kind |-> "Ok",
                   next_miniblock |-> storage.miniblock.v.number + 1,
                   prev_miniblock_hash |-> storage.miniblock.v.hash,
                   prev_miniblock_timestamp |-> storage.miniblock.v.timestamp,
                   l1_batch |-> l1_batch]
             ELSE [kind |-> "Ok",
                   next_miniblock |-> snapshot_recovery.miniblock_number + 1,
                   prev_miniblock_hash |-> snapshot_recovery.miniblock_hash,
                   prev_miniblock_timestamp |-> snapshot_recovery.miniblock_timestamp,
                   l1_batch |-> l1_batch]

\* IoCursor::new(storage): the first two queries, then either the cursor
\* after the last sealed batch and miniblock, or the snapshot query and the
\* cursor built from what exists and, for the rest, the snapshot.
IoCursorNew(storage) ==
    IF storage.failing_query = 1
    THEN Failed("Failed getting sealed L1 batch number")
    ELSE IF storage.failing_query = 2
    THEN Failed("Failed getting sealed miniblock header")
    ELSE IF storage.l1_batch.some /\ storage.miniblock.some
    THEN [kind |-> "Ok",
          next_miniblock |-> storage.miniblock.v.number + 1,
          prev_miniblock_hash |-> storage.miniblock.v.hash,
          prev_miniblock_timestamp |-> storage.miniblock.v.timestamp,
          l1_batch |-> storage.l1_batch.v + 1]
    ELSE IF storage.failing_query = 3
    THEN Failed("Failed getting snapshot recovery info")
    ELSE IF ~storage.snapshot.some
    THEN Failed("Postgres contains neither blocks nor snapshot recovery info")
    ELSE LET snapshot_recovery == storage.snapshot.v
             l1_batch == (IF storage.l1_batch.some THEN storage.l1_batch.v
                          ELSE snapshot_recovery.l1_batch_number) + 1
         IN  IF storage.miniblock.some
             THEN [kind |-> "Ok",
                   next_miniblock |-> storage.miniblock.v.number + 1,
                   prev_miniblock_hash |-> storage.miniblock.v.hash,
                   prev_miniblock_timestamp |-> storage.miniblock.v.timestamp,
                   l1_batch |-> l1_batch]
             ELSE [kind |-> "Ok",
                   next_miniblock |-> snapshot_recovery.miniblock_number + 1,
                   prev_miniblock_hash |-> snapshot_recovery.miniblock_hash,
                   prev_miniblock_timestamp |-> snapshot_recovery.miniblock_timestamp,
                   l1_batch |-> l1_batch]

\* A call about to be made: poll_iters on two durations, or IoCursor::new on
\* a storage.
IoInit ==
    /\ NodeConstructed
    /\ reg = Registry([n \in RESOURCE_NAMES |-> "None"])
    /\ \/ \E d \in Durations, w \in Durations :
             io = [call |-> "poll_iters",
                   args |-> [delay_interval |-> d, max_wait |-> w],
                   ret |-> [kind |-> "Pending"]]
       \/ \E s \in Storages :
             io = [call |-> "IoCursor::new", args |-> s,
                   ret |-> [kind |-> "Pending"]]

PollItersCall(overflow_checks) ==
    /\ io.call = "poll_iters"
    /\ io.ret.kind = "Pending"
    /\ io' = [io EXCEPT !.ret = PollIters(io.args.delay_interval,
                                          io.args.max_wait, overflow_checks)]
    /\ UNCHANGED nodevars
    /\ UNCHANGED reg

IoCursorNewCall ==
    /\ io.call = "IoCursor::new"
    /\ io.ret.kind = "Pending"
    /\ io' = [io EXCEPT !.ret = IoCursorNew(io.args)]
    /\ UNCHANGED nodevars
    /\ UNCHANGED reg

IoNext ==
    \/ \E overflow_checks \in BOOLEAN : PollItersCall(overflow_checks)
    \/ IoCursorNewCall

IoSpec == IoInit /\ [][IoNext]_vars

\* The node's thread, the runtime's workers and the LocalSet do not all stop
\* while one of them has a step to take.
FairSpec == Spec /\ WF_vars(Next)

(* ============================== properties ============================== *)
\* Number of occurrences of x in the sequence s.
Count(x, s) == Cardinality({k \in Indices(s) : s[k] = x})

\* C1: once run has returned from the Running state, its result is decided by
\* the output select_all yielded alone: Ok iff that output is a clean success,
\* otherwise TaskFailed carrying the name of the task at the yielded index.
FirstResolvedDecides ==
    pc = "Done" =>
        /\ sel.idx \in Indices(tasks)
        /\ sel.resolved \in OUTPUTS
        /\ sel.resolved = "Ok" =>
                result = [kind |-> "Ok", name |-> "", names |-> <<>>]
        /\ sel.resolved # "Ok" =>
                result = [kind |-> "TaskFailed", name |-> tasks[sel.idx].name,
                          names |-> <<>>]

\* A run returned Ok although a task resolved during draining had failed.
FirstResolvedDecidesWitness ==
    /\ pc = "Done"
    /\ result.kind = "Ok"
    /\ hist.drained_failure

\* C2: every hook is spawned and started at most once, and whenever a hook has
\* been spawned or started every spawned run future has resolved.
HookAfterAllRuns ==
    /\ \A i \in Indices(tasks) :
          /\ Count(i, hist.hook_spawned) <= 1
          /\ Count(i, hist.started) <= 1
    /\ (hist.hook_spawned # <<>> \/ hist.started # <<>>
          \/ \E i \in Indices(hooks) : hooks[i].state # "Idle") =>
          /\ Len(join_handles) = Len(tasks)
          /\ \A i \in Indices(futs) : futs[i].state = "Finished"

\* Two tasks have run and the hook of one of them has started.
HookAfterAllRunsWitness ==
    /\ Len(hist.spawned) >= 2
    /\ Len(hist.started) >= 1

\* C3: the stop latch is true only when some spawned run future has resolved,
\* and before the node leaves Running the latch is false and no receiver has
\* seen or can see a change.
StopOnlyAfterFirstResolved ==
    /\ stop_sender.value =>
          \E i \in Indices(join_handles) : futs[i].state = "Finished"
    /\ pc \in {"Configuring", "Initializing", "Spawning", "Running"} =>
          /\ ~stop_sender.value
          /\ \A i \in Indices(futs) :
                /\ futs[i].state # "Observed"
                /\ futs[i].state # "Finished" =>
                      ~HasChanged(futs[i].stop_receiver, stop_sender)

\* The stop latch is true while a task is still running.
StopOnlyAfterFirstResolvedWitness ==
    /\ stop_sender.value
    /\ \E i \in Indices(futs) : futs[i].state = "Running"

\* Task i is still running after the node has sent the stop signal.
RunningAfterSend(i) ==
    IF i \in Indices(futs)
    THEN /\ pc \notin {"Configuring", "Initializing", "Spawning", "Running",
                       "Draining"}
         /\ futs[i].state = "Running"
    ELSE FALSE

\* The latch is true and the receiver of task i reports a change.
StopVisible(i) ==
    IF i \in Indices(futs)
    THEN stop_sender.value /\ HasChanged(futs[i].stop_receiver, stop_sender)
    ELSE FALSE

\* select_all has yielded while task i, which resolves only on the stop
\* signal, is running.
WaitsForStop(i) ==
    IF i \in Indices(futs)
    THEN pc = "Draining" /\ futs[i].state = "Running" /\ futs[i].kind = "Stop"
    ELSE FALSE

\* The receiver of task i has returned from changed().
HasObserved(i) ==
    IF i \in Indices(futs) THEN futs[i].state = "Observed" ELSE FALSE

StopLatchSingleShot ==
    /\ ~stop_sender.value
    /\ [][/\ stop_sender.value => stop_sender'.value
          /\ stop_sender' # stop_sender =>
                /\ pc = "Draining"
                /\ ~stop_sender.value /\ stop_sender'.value
                /\ hist.stop_sends = 0]_vars

\* The node has returned and the latch, fired during draining, is still true.
StopLatchSingleShotWitness ==
    /\ pc = "Done"
    /\ stop_sender.value
    /\ stop_sender.version = 1

\* A hook is in progress: it has been polled and is not finished.
InProgress(i) ==
    \/ hooks[i].state = "Suspended"
    \/ hooks[i].state = "Queued" /\ hooks[i].pending > 0

\* C6: at no point are two after_node_shutdown hooks in progress at once.
HooksExclusive ==
    \A i, j \in Indices(hooks) : InProgress(i) /\ InProgress(j) => i = j

\* C7: a hook has started only if the hook of every task registered before
\* it has started and finished.
HooksTotallyOrdered ==
    \A i, j \in Indices(hooks) :
        (i < j /\ Count(i, hist.hook_spawned) = 1 /\ Count(j, hist.started) = 1)
            => hooks[i].state \in {"Done", "Panicked"}

\* C8: every run future is handed to the runtime at most once, the slot of a
\* spawned task is empty, and spawning never meets an empty slot.
SingleRun ==
    /\ pc # "Panicked"
    /\ \A i \in Indices(tasks) :
          /\ Count(i, hist.spawned) <= 1
          /\ Count(i, hist.spawned) = 1 <=> tasks[i].task = "None"
          /\ Count(i, hist.spawned) = 1 <=> Spawned(i)

\* Two tasks have been spawned.
SingleRunWitness ==
    /\ Len(hist.spawned) >= 2
    /\ \A i \in Indices(tasks) : tasks[i].task = "None"

\* C9: when run returns the initialization error, every registered
\* constructor has been invoked, in registration order.
NoShortCircuit ==
    result.kind = "InitializationFailed" =>
        /\ Len(hist.invoked) = Len(hist.registered)
        /\ \A k \in Indices(hist.invoked) :
              hist.invoked[k].name = hist.registered[k]

\* The first constructor failed and the one registered after it was invoked.
NoShortCircuitWitness ==
    /\ result.kind = "InitializationFailed"
    /\ Len(hist.invoked) >= 2
    /\ ~hist.invoked[1].ok
    /\ hist.invoked[2].ok

\* C10: the initialization error enumerates the names of exactly the
\* constructors that failed.
InitErrorEnumeratesFailed ==
    result.kind = "InitializationFailed" =>
        result.names = [k \in Indices(errors) |-> errors[k].name]

\* Nothing has been handed to the runtime, no hook has been queued and
\* neither channel has been sent on or changed.
NothingStarted ==
    /\ join_handles = <<>>
    /\ hist.spawned = <<>>
    /\ \A i \in Indices(futs) : futs[i].state = "Created"
    /\ local_set = <<>>
    /\ hist.hook_spawned = <<>>
    /\ hist.started = <<>>
    /\ hist.stop_sends = 0
    /\ hist.wired_sends = 0
    /\ stop_sender = [value |-> FALSE, version |-> 0]
    /\ wired_sender = [value |-> FALSE, version |-> 0]

\* C11: once a constructor has failed, no run future is spawned or polled,
\* no hook is invoked, and neither the stop nor the wiring signal is sent.
InitFailureStartsNothing ==
    errors # <<>> =>
        /\ pc \in {"Initializing", "Failed"}
        /\ NothingStarted

\* run has returned the initialization error although a task was constructed.
InitFailureStartsNothingWitness ==
    /\ pc = "Failed"
    /\ result.kind = "InitializationFailed"
    /\ tasks # <<>>

\* C12: run on a node without registered constructors ends with NoTasks and
\* has spawned nothing, blocked on nothing and sent on neither channel; and
\* NoTasks is returned in that way only.
EmptyRegistry ==
    /\ (hist.registered = <<>> /\ pc \notin {"Configuring", "Initializing"}) =>
          /\ pc = "Failed"
          /\ result = [kind |-> "NoTasks", name |-> "", names |-> <<>>]
    /\ result.kind = "NoTasks" =>
          /\ hist.registered = <<>>
          /\ tasks = <<>>
          /\ NothingStarted

\* run has returned NoTasks.
EmptyRegistryWitness ==
    /\ pc = "Failed"
    /\ result.kind = "NoTasks"
    /\ hist.invoked = <<>>

\* C13: a run future has been spawned or has made a step only if every
\* registered constructor has been invoked and has returned.
TwoPhase ==
    (join_handles # <<>> \/ \E i \in Indices(futs) : futs[i].state # "Created") =>
        /\ pc \notin {"Configuring", "Initializing"}
        /\ ctors = <<>>
        /\ Len(hist.invoked) = Len(hist.registered)

\* A task is running, or has finished, after two constructors were invoked.
TwoPhaseWitness ==
    /\ Len(hist.invoked) >= 2
    /\ \E i \in Indices(futs) : futs[i].state \in {"Running", "Finished"}

\* C14 as stated: whenever the stop latch is true the wiring latch is true.
StopImpliesWired == stop_sender.value => wired_sender.value

\* C14: the wiring signal is sent at most once, only when every registered
\* constructor has returned successfully, after the last constructor and
\* before any spawn, so that it has been sent whenever the stop signal has
\* been sent; the send makes the latch true exactly when some task holds a
\* subscription to it, and the latch never goes back to false.
WiringLatchSingleShot ==
    /\ ~wired_sender.value
    /\ [](/\ hist.wired_sends <= 1
          /\ wired_sender.value => hist.wired_sends = 1
          /\ hist.wired_sends = 1 =>
                /\ errors = <<>> /\ ctors = <<>>
                /\ Len(hist.invoked) = Len(hist.registered)
                /\ \A k \in Indices(hist.invoked) : hist.invoked[k].ok
          /\ join_handles # <<>> => hist.wired_sends = 1
          /\ hist.stop_sends >= 1 => hist.wired_sends = 1)
    /\ [][/\ wired_sender.value => wired_sender'.value
          /\ wired_sender' # wired_sender => hist'.wired_sends # hist.wired_sends
          /\ hist'.wired_sends # hist.wired_sends =>
                /\ join_handles = <<>>
                /\ wired_sender'.value = (WiredReceiverCount > 0)]_vars

\* Both latches are true.
WiringLatchSingleShotWitness ==
    /\ wired_sender.value
    /\ stop_sender.value

\* C19: when the first output is a panic, run returns TaskFailed naming that
\* task, and only after the stop signal was sent, every run future resolved
\* and every provided hook, the panicked task's included, started and ended.
PanicStillDrains ==
    (sel.resolved = "Panic" /\ result.kind # "None") =>
        /\ pc = "Done"
        /\ result = [kind |-> "TaskFailed", name |-> tasks[sel.idx].name,
                      names |-> <<>>]
        /\ hist.stop_sends = 1
        /\ \A i \in Indices(futs) : futs[i].state = "Finished"
        /\ \A i \in Indices(hooks) :
              hooks[i].provided =>
                  /\ hooks[i].state \in {"Done", "Panicked"}
                  /\ Count(i, hist.started) = 1

\* run has returned after a panic of a task that provided a hook, with
\* another task drained.
PanicStillDrainsWitness ==
    /\ pc = "Done"
    /\ sel.resolved = "Panic"
    /\ Len(tasks) >= 2
    /\ hooks[sel.idx].provided

\* C20: when a hook has panicked, every other provided hook has still been
\* started and has ended by the time run returns, and the result is the one
\* the first output alone decides.
HookFailureIsolated ==
    (pc = "Done" /\ \E i \in Indices(hooks) : hooks[i].state = "Panicked") =>
        /\ \A i \in Indices(hooks) :
              hooks[i].provided =>
                  /\ hooks[i].state \in {"Done", "Panicked"}
                  /\ Count(i, hist.started) = 1
        /\ result = IF sel.resolved = "Ok"
                    THEN [kind |-> "Ok", name |-> "", names |-> <<>>]
                    ELSE [kind |-> "TaskFailed", name |-> sel.task_name,
                          names |-> <<>>]

\* run has returned Ok although the first hook panicked, and the second hook
\* has run to its end.
HookFailureIsolatedWitness ==
    /\ pc = "Done"
    /\ result.kind = "Ok"
    /\ Len(hooks) >= 2
    /\ hooks[1].state = "Panicked"
    /\ hooks[2].state = "Done"

\* The first output has been taken and a spawned run future is unresolved.
Unresolved ==
    /\ sel.idx # 0
    /\ \E i \in Indices(join_handles) : futs[i].state # "Finished"

\* C21: a run future ends only by producing its own output, never by an
\* abort; run has returned Ok or TaskFailed only when every spawned run
\* future has resolved and every provided hook has ended; and while a
\* remaining task is unresolved the node is draining and no hook has been
\* spawned or started.
CooperativeDrain ==
    /\ [](pc = "Done" =>
            /\ result.kind \in {"Ok", "TaskFailed"}
            /\ Len(join_handles) = Len(tasks)
            /\ \A i \in Indices(futs) : futs[i].state = "Finished"
            /\ local_set = <<>>
            /\ \A i \in Indices(hooks) :
                  hooks[i].provided => hooks[i].state \in {"Done", "Panicked"})
    /\ [](Unresolved =>
            /\ pc \in {"Draining", "Joining"}
            /\ result = NoResult
            /\ hist.hook_spawned = <<>>
            /\ hist.started = <<>>
            /\ \A i \in Indices(hooks) : hooks[i].state = "Idle")
    /\ [][\A i \in Indices(futs) :
            (futs[i].state # "Finished" /\ futs'[i].state = "Finished") =>
                /\ i \in Indices(join_handles)
                /\ join_handles[i] = "Pending"
                /\ join_handles'[i] \in OUTPUTS
                /\ futs[i].state = "Observed" \/ futs[i].kind = "Self"]_vars

\* run has returned after the stop signal reached a task that was still
\* running, and a hook has run.
CooperativeDrainWitness ==
    /\ pc = "Done"
    /\ stop_sender.value
    /\ Len(hist.spawned) >= 2
    /\ \E i \in Indices(hooks) : hooks[i].state = "Done"

\* The tasks are running and one of them resolves on its own (or has).
ResolvesOnItsOwn ==
    /\ pc = "Running"
    /\ \E i \in Indices(futs) : futs[i].kind = "Self" \/ futs[i].state = "Finished"

\* C22: under fair scheduling, a running node one of whose tasks resolves on
\* its own eventually returns from run.
RunTerminates == ResolvesOnItsOwn ~> (pc = "Done")

\* run has returned after a task observed the stop signal and a hook had
\* been suspended.
RunTerminatesWitness ==
    /\ pc = "Done"
    /\ stop_sender.version = 1
    /\ \E i \in Indices(hooks) : hooks[i].state = "Done" /\ hooks[i].pending > 0

\* C23: new called inside a runtime returns the environment error and builds
\* nothing: no channel, no constructor list, and no later step of a node;
\* called outside a runtime it yields a node with both latches false, no
\* live receiver and an empty constructor list.
AmbientExecutorRefusal ==
    /\ [](pc = "Refused" =>
            /\ result.kind = "InvalidEnvironment"
            /\ stop_sender = NoChannel /\ wired_sender = NoChannel
            /\ task_constructors = <<>>
            /\ hist.registered = <<>> /\ hist.invoked = <<>>
            /\ tasks = <<>>)
    /\ [][/\ pc = "InRuntime" => pc' = "Refused"
          /\ pc = "Refused" => pc' = "Refused"
          /\ pc = "NoRuntime" =>
                /\ pc' = "Configuring"
                /\ result' = NoResult
                /\ stop_sender' = [value |-> FALSE, version |-> 0]
                /\ wired_sender' = [value |-> FALSE, version |-> 0]
                /\ task_constructors' = <<>>
                /\ futs' = <<>>]_vars

\* new has refused to build a node.
AmbientExecutorRefusalWitness ==
    /\ pc = "Refused"
    /\ result.kind = "InvalidEnvironment"

\* C26: when constructors were registered and none of them produced a task,
\* run returns InitializationFailed; NoTasks is returned only when nothing
\* was registered.
InitErrorsBeforeEmptyCheck ==
    /\ (pc \notin {"Configuring", "Initializing"}
          /\ hist.registered # <<>> /\ tasks = <<>>) =>
          /\ pc = "Failed"
          /\ result.kind = "InitializationFailed"
          /\ Len(errors) = Len(hist.registered)
    /\ (pc = "Failed" /\ hist.registered # <<>>) =>
          result.kind = "InitializationFailed"
    /\ result.kind = "NoTasks" => (hist.registered = <<>> /\ errors = <<>>)

\* Two constructors were registered, both failed, and run has returned.
InitErrorsBeforeEmptyCheckWitness ==
    /\ pc = "Failed"
    /\ tasks = <<>>
    /\ Len(errors) >= 2
    /\ result.kind = "InitializationFailed"

\* C28: run takes the constructor list out of the node, which is empty from
\* then on; the constructors are invoked one per step, in registration order,
\* each once, and all of them before run goes past initialization.
ConstructorsDrainedOnce ==
    /\ [](pc # "Configuring" =>
            /\ task_constructors = <<>>
            /\ Len(hist.invoked) + Len(ctors) = Len(hist.registered)
            /\ \A k \in Indices(hist.invoked) :
                  hist.invoked[k].name = hist.registered[k]
            /\ \A k \in Indices(ctors) :
                  ctors[k] = hist.registered[Len(hist.invoked) + k]
            /\ pc # "Initializing" => Len(hist.invoked) = Len(hist.registered))
    /\ [][hist'.invoked # hist.invoked =>
            /\ pc = "Initializing"
            /\ Len(hist'.invoked) = Len(hist.invoked) + 1
            /\ \A k \in Indices(hist.invoked) :
                  hist'.invoked[k] = hist.invoked[k]]_vars

\* Two different constructors have been invoked and their tasks are running.
ConstructorsDrainedOnceWitness ==
    /\ pc = "Running"
    /\ Len(hist.invoked) = 2
    /\ hist.invoked[1].name # hist.invoked[2].name

\* C29: a task that waits for the stop signal resolves only after the signal
\* was sent and its receiver observed the change, so while the node is in
\* Running no such task has resolved; and a running node all of whose tasks
\* wait for the stop signal stays in Running with the signal unsent.
StopTaskNeverFirst ==
    /\ [](pc = "Running" =>
            \A i \in Indices(futs) :
                futs[i].kind = "Stop" =>
                    (futs[i].state = "Running" /\ join_handles[i] = "Pending"))
    /\ [][\A i \in Indices(futs) :
            (futs[i].kind = "Stop" /\ futs'[i].state = "Finished") =>
                /\ futs[i].state = "Observed"
                /\ stop_sender.value
                /\ hist.stop_sends = 1]_vars
    /\ [][(pc = "Running" /\ \A i \in Indices(futs) : futs[i].kind = "Stop") =>
            /\ pc' = "Running"
            /\ ~stop_sender'.value
            /\ hist'.stop_sends = 0
            /\ \A i \in Indices(futs) :
                  futs'[i].kind = "Stop" /\ join_handles'[i] = "Pending"]_vars

\* Two tasks that wait for the stop signal are running and nothing else is.
StopTaskNeverFirstWitness ==
    /\ pc = "Running"
    /\ Len(futs) = 2
    /\ \A i \in Indices(futs) : futs[i].kind = "Stop" /\ futs[i].state = "Running"

(* ------------------------ registry properties -------------------------- *)
\* The calls made so far, by position.
Gets == 1..Len(reg.gets)

\* The type of the value get_resource has to interpret in call g: the cached
\* one, else the one the provider holds ("None" if there is neither).
StoredType(g) ==
    IF g.before[g.name] # NoResource THEN g.before[g.name].ty
    ELSE reg.provider[g.name]

\* Call g asked for a name whose value is of another type than requested.
Mismatch(g) == StoredType(g) # "None" /\ StoredType(g) # g.ty

\* C15 as stated: the provider is asked at most once for every name, whatever
\* it answered.
ProviderOncePerName ==
    \A n \in RESOURCE_NAMES : reg.provider_calls[n] <= 1

\* C15 (amended): once a get_resource call for a name has returned a value,
\* the provider is never asked for that name again, so at most one provider
\* answer per name is ever handed to a caller; a name for which the provider
\* answered absent is asked for again by every later call.
ProviderOncePerValue ==
    /\ \A k \in Gets : \A l \in Gets :
         (k < l /\ reg.gets[k].name = reg.gets[l].name /\ reg.gets[k].seen = "Some")
            => ~reg.gets[l].queried
    /\ \A k \in Gets : \A l \in Gets :
         (k # l /\ reg.gets[k].name = reg.gets[l].name
               /\ reg.gets[k].queried /\ reg.gets[l].queried)
            => (reg.gets[k].seen # "Some" \/ reg.gets[l].seen # "Some")
    /\ \A k \in Gets :
         (reg.gets[k].before[reg.gets[k].name] = NoResource
            /\ reg.provider[reg.gets[k].name] = "None")
            => reg.gets[k].queried

ProviderOncePerValueWitness ==
    \E k \in Gets : \E l \in Gets : \E m \in Gets :
        /\ k < l /\ reg.gets[k].name = reg.gets[l].name
        /\ reg.gets[k].queried /\ reg.gets[k].seen = "Some"
        /\ reg.gets[l].seen = "Some"
        /\ reg.provider_calls[reg.gets[k].name] = 1
        /\ reg.gets[m].queried /\ reg.gets[m].seen = "None"

\* C16: after get_resource<T>(name) has returned a value, every later
\* get_resource<T>(name) returns an equal value, does not ask the provider,
\* and leaves every cache entry as it was.
HitIdempotent ==
    \A k \in Gets : \A l \in Gets :
        (k < l /\ reg.gets[k].name = reg.gets[l].name
               /\ reg.gets[k].ty = reg.gets[l].ty /\ reg.gets[k].seen = "Some")
           => /\ reg.gets[l].seen = "Some"
              /\ reg.gets[l].ret = reg.gets[k].ret
              /\ ~reg.gets[l].queried
              /\ reg.gets[l].after = reg.gets[l].before

HitIdempotentWitness ==
    \E k \in Gets : \E l \in Gets :
        /\ k < l /\ reg.gets[k].name = reg.gets[l].name
        /\ reg.gets[k].ty = reg.gets[l].ty
        /\ reg.gets[k].queried /\ reg.gets[k].seen = "Some"
        /\ reg.gets[l].seen = "Some"

\* C17 as stated: a constructor that retrieves a name as a type other than
\* the stored value's fails with ResourceTypeMismatch, the error is recorded
\* with the other init errors, and initialization goes on to the constructors
\* after it.
MismatchAggregated ==
    \A k \in Gets :
        Mismatch(reg.gets[k])
           => /\ \E e \in 1..Len(reg.errors) :
                    reg.errors[e] = [ctor |-> k, err |-> "ResourceTypeMismatch"]
              /\ reg.pc = "Ready"

\* C18: when the name is not cached and the provider answers absent,
\* get_resource returns None without failing and the cache is left as it
\* was, with no entry for the name.
MissingIsNotAnError ==
    \A k \in Gets :
        (reg.gets[k].before[reg.gets[k].name] = NoResource
            /\ reg.provider[reg.gets[k].name] = "None")
           => /\ reg.gets[k].seen = "None"
              /\ reg.gets[k].after = reg.gets[k].before
              /\ reg.gets[k].after[reg.gets[k].name] = NoResource

\* Call g missed the cache and the provider returned a value.
Fetched(g) == g.queried /\ reg.provider[g.name] # "None"

\* C27 as stated: a value the provider returned on a cache miss is in the
\* cache under the name afterwards, whether or not it is of the requested
\* type.
CachedBeforeInterpreted ==
    \A k \in Gets :
        Fetched(reg.gets[k]) =>
            reg.gets[k].after[reg.gets[k].name] # NoResource

\* C27 (amended): a value the provider returned on a cache miss is
\* interpreted as T before it is cached: it is stored under the name, and
\* returned, only if it is of type T; after a type mismatch the cache is as
\* it was before the call, with no entry for the name.
InterpretedBeforeCached ==
    \A k \in Gets :
        Fetched(reg.gets[k]) =>
            /\ reg.gets[k].before[reg.gets[k].name] = NoResource
            /\ reg.provider[reg.gets[k].name] = reg.gets[k].ty =>
                  /\ reg.gets[k].seen = "Some"
                  /\ reg.gets[k].ret.ty = reg.gets[k].ty
                  /\ reg.gets[k].after =
                        [reg.gets[k].before EXCEPT ![reg.gets[k].name] = reg.gets[k].ret]
            /\ reg.provider[reg.gets[k].name] # reg.gets[k].ty =>
                  /\ reg.gets[k].seen # "Some"
                  /\ reg.gets[k].after = reg.gets[k].before
                  /\ reg.gets[k].after[reg.gets[k].name] = NoResource

\* A fetched value of another type than requested, after a fetched value of
\* the requested type under another name.
InterpretedBeforeCachedWitness ==
    \E k \in Gets : \E l \in Gets :
        /\ k < l
        /\ Fetched(reg.gets[k]) /\ reg.gets[k].seen = "Some"
        /\ Fetched(reg.gets[l]) /\ Mismatch(reg.gets[l])

MissingIsNotAnErrorWitness ==
    \E k \in Gets : \E l \in Gets :
        /\ k < l
        /\ reg.gets[k].before[reg.gets[k].name] = NoResource
        /\ reg.provider[reg.gets[k].name] = "None"
        /\ reg.gets[l].seen = "Some" /\ reg.gets[l].queried
        /\ reg.pc = "Ready"

(* ---------------------- IO helper properties --------------------------- *)
\* ceil(w / d) for d >= 1: the least n with n * d >= w.
CeilDiv(w, d) == CHOOSE n \in 0..w : n * d >= w /\ (n = 0 \/ (n - 1) * d < w)

\* C24 as stated: poll_iters on a delay of d >= 1 and a wait of w >= 0
\* milliseconds returns max(1, ceil(w / d)), and on a delay of 0 milliseconds
\* it fails its assertion.
PollItersCeil ==
    (io.call = "poll_iters" /\ io.ret.kind # "Pending") =>
        IF io.args.delay_interval = 0
        THEN io.ret.kind = "Panic"
        ELSE /\ io.ret.kind = "Ok"
             /\ io.ret.value =
                   (IF CeilDiv(io.args.max_wait, io.args.delay_interval) < 1 THEN 1
                    ELSE CeilDiv(io.args.max_wait, io.args.delay_interval))

\* C25: with no query failing, IoCursor::new fails when the L1 batch or the
\* miniblock is missing and there is no snapshot record; otherwise the
\* miniblock fields are the last sealed miniblock's (number + 1, hash,
\* timestamp) if there is one and the snapshot's if not, and l1_batch is the
\* last sealed L1 batch number + 1 if there is one and the snapshot's if not.
CursorJustPastPersisted ==
    (io.call = "IoCursor::new" /\ io.ret.kind # "Pending"
        /\ io.args.failing_query = 0) =>
        IF (~io.args.l1_batch.some \/ ~io.args.miniblock.some)
              /\ ~io.args.snapshot.some
        THEN io.ret.kind = "Err"
        ELSE /\ io.ret.kind = "Ok"
             /\ IF io.args.miniblock.some
                THEN /\ io.ret.next_miniblock = io.args.miniblock.v.number + 1
                     /\ io.ret.prev_miniblock_hash = io.args.miniblock.v.hash
                     /\ io.ret.prev_miniblock_timestamp =
                           io.args.miniblock.v.timestamp
                ELSE /\ io.ret.next_miniblock =
                           io.args.snapshot.v.miniblock_number + 1
                     /\ io.ret.prev_miniblock_hash =
                           io.args.snapshot.v.miniblock_hash
                     /\ io.ret.prev_miniblock_timestamp =
                           io.args.snapshot.v.miniblock_timestamp
             /\ IF io.args.l1_batch.some
                THEN io.ret.l1_batch = io.args.l1_batch.v + 1
                ELSE io.ret.l1_batch = io.args.snapshot.v.l1_batch_number + 1

\* A cursor built from a sealed L1 batch and, for want of a miniblock, a
\* snapshot whose batch number differs.
CursorJustPastPersistedWitness ==
    /\ io.call = "IoCursor::new"
    /\ io.ret.kind = "Ok"
    /\ io.args.l1_batch.some
    /\ ~io.args.miniblock.some
    /\ io.args.snapshot.some

====
